---- MODULE Spec2Model ----
(***************************************************************************)
(* Model of src/EdmondsKarp.py: EdmondsKarp(capacities, m) and the BFS it  *)
(* calls.  One run of EdmondsKarp is one behaviour: Init is the state      *)
(* after lines 21-26, each loop of the code is unrolled into steps, and    *)
(* "done" is the state at the return of line 47.                           *)
(***************************************************************************)
EXTENDS Integers, Sequences, FiniteSets, TLC

VARIABLES
    m,                    \* parameter m: number of nodes
    capacities,           \* parameter capacities: m x m matrix, never written
    adjacency,            \* line 25: per node, the ascending list of v with C[u][v] != 0
    residual_capacities,  \* line 24: the matrix F, written at lines 40-41
    totalFlow,            \* line 23, added to at line 36
    steps,                \* line 26, incremented at line 28
    visited,              \* line 29: V of BFS, predecessor or -1 or -2
    flow,                 \* line 31: M of BFS, bottleneck up to each node
    queue,                \* line 66: the frontier of BFS
    pathFlow,             \* line 33: the value f that BFS returns
    v,                    \* line 37: position of the walk back from the sink
    cut,                  \* line 47: sorted(cut) as returned
    optimalFlow,          \* line 46
    augmentations,        \* history: how many times line 36 was executed
    pc                    \* control position: loop, bfs, check, walk, extract, done

vars == <<m, capacities, adjacency, residual_capacities, totalFlow, steps,
          visited, flow, queue, pathFlow, v, cut, optimalFlow,
          augmentations, pc>>

(***************************************************************************)
(* Bounds of the checked inputs.                                           *)
(***************************************************************************)
MaxCap == 1

(***************************************************************************)
(* Program constants.                                                      *)
(***************************************************************************)
\* float('inf'), the bottleneck of the source (line 32): larger than any
\* capacity, and min(Inf, a) = a for every capacity a.
Inf == 1000000
\* visited[] entry of a node the search has not reached (line 29)
Unvisited == -1
\* visited[] entry of the source (line 30)
SourceMarkSlip == Unvisited
SourceMark == -2

Nodes(n) == 0 .. (n - 1)
Source == 0
Sink(n) == n - 1

Min(a, b) == IF a <= b THEN a ELSE b
Max(a, b) == IF a >= b THEN a ELSE b

(***************************************************************************)
(* Inputs: a node count and a square matrix of non-negative capacities.    *)
(***************************************************************************)
AllPairs(n) == Nodes(n) \X Nodes(n)

\* the matrix with capacity caps[e] on the pairs e of DOMAIN caps, 0 elsewhere
MatrixOf(n, caps) ==
    [a \in Nodes(n) |-> [b \in Nodes(n) |->
        IF <<a, b>> \in DOMAIN caps THEN caps[<<a, b>>] ELSE 0]]

Graphs(n, edges) ==
    { [m |-> n, C |-> MatrixOf(n, caps)] : caps \in [edges -> 0 .. MaxCap] }

\* four nodes: the diamond, an antiparallel pair between the inner nodes,
\* an edge into the source and an edge out of the sink
Edges4 == { <<0, 1>>, <<0, 2>>, <<1, 3>>, <<2, 3>>,
            <<1, 2>>, <<2, 1>>, <<2, 0>>, <<3, 1>> }
\* five nodes: two routes that merge before the sink
Edges5 == { <<0, 1>>, <<0, 2>>, <<1, 3>>, <<2, 3>>, <<3, 4>>, <<3, 1>> }
\* six nodes: two disjoint routes and an edge crossing from one to the other
Edges6 == { <<0, 1>>, <<0, 2>>, <<1, 3>>, <<1, 4>>, <<2, 3>>,
            <<3, 5>>, <<4, 5>>, <<3, 1>> }

SingleEdge == [m |-> 2, C |-> MatrixOf(2, (<<0, 1>> :> 5))]
Diamond == [m |-> 4, C |-> MatrixOf(4, (<<0, 1>> :> 3) @@ (<<0, 2>> :> 2)
                                     @@ (<<1, 3>> :> 2) @@ (<<2, 3>> :> 3))]
Cyclic == [m |-> 3, C |-> MatrixOf(3, (<<0, 1>> :> 5) @@ (<<1, 0>> :> 5)
                                    @@ (<<1, 2>> :> 5))]
\* a chain whose capacities grow towards the sink, with a loop on a node
Widening == [m |-> 4, C |-> MatrixOf(4, (<<0, 1>> :> 1) @@ (<<1, 2>> :> 2)
                                      @@ (<<2, 3>> :> 3) @@ (<<1, 1>> :> 4)
                                      @@ (<<2, 1>> :> 2))]

Inputs ==
    Graphs(2, AllPairs(2)) \cup Graphs(3, AllPairs(3)) \cup Graphs(4, Edges4)
        \cup Graphs(5, Edges5) \cup Graphs(6, Edges6)
        \cup {SingleEdge, Diamond, Cyclic, Widening}

(***************************************************************************)
(* Helpers of EdmondsKarp and BFS.                                         *)
(***************************************************************************)
\* [i for i,e in enumerate(a) if e != 0], in ascending order of i
AdjacencyRow(n, row) ==
    SelectSeq([i \in 1 .. n |-> i - 1], LAMBDA j : row[j] # 0)

Adjacency(n, C) == [a \in Nodes(n) |-> AdjacencyRow(n, C[a])]

\* available = C[u][v] - F[u][v]
Available(C, F, a, b) == C[a][b] - F[a][b]

\* the test "available > 0"
HasCapacitySlip(available) == available >= 0
HasCapacity(available) == available > 0

\* M[v] = min(M[u], available)
BottleneckSlip(Mu, available) == available
Bottleneck(Mu, available) == Min(Mu, available)

\* what queue.pop(0) leaves in the queue
QueueRestSlip(q) == q
QueueRest(q) == Tail(q)

\* the for loop over A[u] from position i on; st carries V, M, the queue and
\* whether Found was raised (then f = M[sink] and the loop is abandoned)
RECURSIVE ScanNeighbours(_, _, _, _, _, _, _)
ScanNeighbours(Au, i, u, C, F, sink, st) ==
    IF i > Len(Au) THEN st
    ELSE LET w == Au[i]
             available == Available(C, F, u, w)
         IN IF HasCapacity(available) /\ st.V[w] = Unvisited
            THEN LET V1 == [st.V EXCEPT ![w] = u]
                     M1 == [st.M EXCEPT ![w] = Bottleneck(st.M[u], available)]
                 IN IF w # sink
                    THEN ScanNeighbours(Au, i + 1, u, C, F, sink,
                            [st EXCEPT !.V = V1, !.M = M1,
                                       !.queue = Append(st.queue, w)])
                    ELSE [st EXCEPT !.V = V1, !.M = M1,
                                    !.found = TRUE, !.f = M1[sink]]
            ELSE ScanNeighbours(Au, i + 1, u, C, F, sink, st)

\* residual_capacities[u][v] += pathFlow; residual_capacities[v][u] -= pathFlow
AugmentSlip(F, a, b, f) ==
    LET F1 == [F EXCEPT ![a][b] = @ + f]
    IN [F1 EXCEPT ![b][a] = @ + f]
Augment(F, a, b, f) ==
    LET F1 == [F EXCEPT ![a][b] = @ + f]
    IN [F1 EXCEPT ![b][a] = @ - f]

\* steps += 1
CountStepSlip(s) == s + 2
CountStep(s) == s + 1

\* the test "pathFlow == 0" that leaves the loop
NoPath(f) == f = 0

\* max(a, 0)
PositivePart(a) == Max(a, 0)

\* sorted(): insertion of x into an ascending sequence, then the whole sort
RECURSIVE InsertSorted(_, _)
InsertSorted(s, x) ==
    IF s = <<>> THEN <<x>>
    ELSE IF x < Head(s) THEN <<x>> \o s
    ELSE <<Head(s)>> \o InsertSorted(Tail(s), x)

RECURSIVE Sorted(_)
Sorted(s) == IF s = <<>> THEN <<>> ELSE InsertSorted(Sorted(Tail(s)), Head(s))

\* cut = [i for i,e in enumerate(visited) if e >= 0]; cut.append(source)
CutList(n, V) ==
    Append(SelectSeq([i \in 1 .. n |-> i - 1], LAMBDA j : V[j] >= 0), Source)

\* optimalFlow = [[max(a,0) for a in f] for f in residual_capacities]
OptimalFlowSlip(n, F) ==
    [a \in Nodes(n) |-> [b \in Nodes(n) |->
        PositivePart(capacities[a][b] - F[a][b])]]
OptimalFlow(n, F) == [a \in Nodes(n) |-> [b \in Nodes(n) |-> PositivePart(F[a][b])]]

(***************************************************************************)
(* The state after lines 21-26.  visited, flow, queue, pathFlow and v are  *)
(* not bound yet in the code; they are written before they are read.       *)
(***************************************************************************)
Init ==
    \E g \in Inputs :
        /\ m = g.m
        /\ capacities = g.C
        /\ adjacency = Adjacency(g.m, g.C)
        /\ residual_capacities = [a \in Nodes(g.m) |-> [b \in Nodes(g.m) |-> 0]]
        /\ totalFlow = 0
        /\ steps = 0
        /\ visited = [a \in Nodes(g.m) |-> Unvisited]
        /\ flow = [a \in Nodes(g.m) |-> 0]
        /\ queue = <<>>
        /\ pathFlow = 0
        /\ v = Sink(g.m)
        /\ cut = <<>>
        /\ optimalFlow = [a \in Nodes(g.m) |-> [b \in Nodes(g.m) |-> 0]]
        /\ augmentations = 0
        /\ pc = "loop"

\* lines 28-33 up to the call, and lines 66-67 of BFS
StartIteration ==
    /\ pc = "loop"
    /\ steps' = CountStep(steps)
    /\ visited' = [[a \in Nodes(m) |-> Unvisited] EXCEPT ![Source] = SourceMark]
    /\ flow' = [[a \in Nodes(m) |-> 0] EXCEPT ![Source] = Inf]
    /\ queue' = <<Source>>
    /\ pathFlow' = 0
    /\ pc' = "bfs"
    /\ UNCHANGED <<m, capacities, adjacency, residual_capacities, totalFlow,
                   v, cut, optimalFlow, augmentations>>

\* one turn of "while queue": lines 69-80; Found ends the search (81-83)
BFSVisit ==
    /\ pc = "bfs"
    /\ queue # <<>>
    /\ LET u == Head(queue)
           st == ScanNeighbours(adjacency[u], 1, u, capacities,
                     residual_capacities, Sink(m),
                     [V |-> visited, M |-> flow, queue |-> QueueRest(queue),
                      found |-> FALSE, f |-> 0])
       IN /\ visited' = st.V
          /\ flow' = st.M
          /\ queue' = st.queue
          /\ pathFlow' = st.f
          /\ pc' = IF st.found THEN "check" ELSE "bfs"
    /\ UNCHANGED <<m, capacities, adjacency, residual_capacities, totalFlow,
                   steps, v, cut, optimalFlow, augmentations>>

\* the queue is empty: BFS returns f = 0 (lines 69, 83)
BFSExhausted ==
    /\ pc = "bfs"
    /\ queue = <<>>
    /\ pathFlow' = 0
    /\ pc' = "check"
    /\ UNCHANGED <<m, capacities, adjacency, residual_capacities, totalFlow,
                   steps, visited, flow, queue, v, cut, optimalFlow,
                   augmentations>>

\* lines 34-35: no path, leave the loop
Break ==
    /\ pc = "check"
    /\ NoPath(pathFlow)
    /\ pc' = "extract"
    /\ UNCHANGED <<m, capacities, adjacency, residual_capacities, totalFlow,
                   steps, visited, flow, queue, pathFlow, v, cut, optimalFlow,
                   augmentations>>

\* lines 36-37: a path was found, add its flow and start the walk at the sink
AddFlow ==
    /\ pc = "check"
    /\ ~NoPath(pathFlow)
    /\ totalFlow' = totalFlow + pathFlow
    /\ augmentations' = augmentations + 1
    /\ v' = Sink(m)
    /\ pc' = "walk"
    /\ UNCHANGED <<m, capacities, adjacency, residual_capacities, steps,
                   visited, flow, queue, pathFlow, cut, optimalFlow>>

\* one turn of "while v != source": lines 38-42
WalkStep ==
    /\ pc = "walk"
    /\ v # Source
    /\ LET u == visited[v]
       IN /\ residual_capacities' = Augment(residual_capacities, u, v, pathFlow)
          /\ v' = u
    /\ UNCHANGED <<m, capacities, adjacency, totalFlow, steps, visited, flow,
                   queue, pathFlow, cut, optimalFlow, augmentations, pc>>

\* the walk reached the source: back to line 27
WalkDone ==
    /\ pc = "walk"
    /\ v = Source
    /\ pc' = "loop"
    /\ UNCHANGED <<m, capacities, adjacency, residual_capacities, totalFlow,
                   steps, visited, flow, queue, pathFlow, v, cut, optimalFlow,
                   augmentations>>

\* lines 44-47
Extract ==
    /\ pc = "extract"
    /\ cut' = Sorted(CutList(m, visited))
    /\ optimalFlow' = OptimalFlow(m, residual_capacities)
    /\ pc' = "done"
    /\ UNCHANGED <<m, capacities, adjacency, residual_capacities, totalFlow,
                   steps, visited, flow, queue, pathFlow, v, augmentations>>

Next ==
    \/ StartIteration
    \/ BFSVisit
    \/ BFSExhausted
    \/ Break
    \/ AddFlow
    \/ WalkStep
    \/ WalkDone
    \/ Extract

Spec == Init /\ [][Next]_vars

\* the program is sequential and runs until it returns
FairSpec == Spec /\ WF_vars(Next)

(***************************************************************************)
(* Definitions used to state the properties.                               *)
(***************************************************************************)
RECURSIVE SumTo(_, _)
SumTo(f, k) == IF k < 0 THEN 0 ELSE f[k] + SumTo(f, k - 1)

RowSum(Mx, a) == SumTo(Mx[a], m - 1)
ColSum(Mx, b) == SumTo([a \in Nodes(m) |-> Mx[a][b]], m - 1)

\* capacity of the edges that leave the node set S
CutCapacity(S) ==
    SumTo([a \in Nodes(m) |->
              IF a \in S
              THEN SumTo([b \in Nodes(m) |->
                             IF b \in S THEN 0 ELSE capacities[a][b]], m - 1)
              ELSE 0], m - 1)

SetMin(S) == CHOOSE x \in S : \A y \in S : x <= y

\* the maximum flow value of the network, which a max-flow computation that
\* augments along every residual edge (reverse edges included) attains: the
\* least capacity of a cut that separates the source from the sink
MaxFlowValue ==
    SetMin({ CutCapacity(S \cup {Source}) :
                 S \in SUBSET (Nodes(m) \ {Source, Sink(m)}) })

CutSet == { cut[i] : i \in 1 .. Len(cut) }

AscendingSeq(S) == SelectSeq([i \in 1 .. m |-> i - 1], LAMBDA j : j \in S)

CapacityEdge(a, b) == capacities[a][b] > 0
ResidualEdge(a, b) == capacities[a][b] - residual_capacities[a][b] > 0

\* the nodes reachable from the nodes of S along edges of positive capacity
RECURSIVE Closure(_)
Closure(S) ==
    LET T == S \cup { b \in Nodes(m) : \E a \in S : CapacityEdge(a, b) }
    IN IF T = S THEN S ELSE Closure(T)

ReachableInNetwork == Closure({Source})

\* fewest edges from the source to the sink in the residual graph, -1 if none
RECURSIVE ResidualDistance(_, _, _)
ResidualDistance(seen, frontier, d) ==
    IF Sink(m) \in frontier THEN d
    ELSE IF frontier = {} THEN -1
    ELSE LET nxt == { b \in Nodes(m) \ seen :
                          \E a \in frontier : ResidualEdge(a, b) }
         IN ResidualDistance(seen \cup nxt, nxt, d + 1)

SinkDistance == ResidualDistance({Source}, {Source}, 0)

\* the predecessor chain from x back to the source, source first; it stops
\* after m nodes or at a node without a predecessor
RECURSIVE Chain(_, _)
Chain(x, fuel) ==
    IF x = Source \/ fuel = 0 \/ visited[x] < 0 THEN <<x>>
    ELSE Append(Chain(visited[x], fuel - 1), x)

SinkChain == Chain(Sink(m), m)

IsSimplePath(p) ==
    /\ p[1] = Source
    /\ p[Len(p)] = Sink(m)
    /\ \A i, j \in 1 .. Len(p) : i # j => p[i] # p[j]
    /\ \A i \in 1 .. Len(p) - 1 : ResidualEdge(p[i], p[i + 1])

PathBottleneck(p) ==
    SetMin({ capacities[p[i]][p[i + 1]] - residual_capacities[p[i]][p[i + 1]] :
                 i \in 1 .. Len(p) - 1 })

IsInput(g) == m = g.m /\ capacities = g.C

\* C1: the total flow returned is the maximum source-to-sink flow value of
\* the network.
C1_TotalFlowIsMaxFlow == pc = "done" => totalFlow = MaxFlowValue

\* C2: the total flow returned equals the capacity of the edges that go from
\* the returned cut to its complement.
C2_FlowEqualsCutCapacity == pc = "done" => totalFlow = CutCapacity(CutSet)

\* C3: the residual matrix never exceeds the capacities, and the returned
\* flow matrix lies between 0 and the capacities on every pair of nodes.
C3_CapacityRespect ==
    /\ \A a, b \in Nodes(m) : residual_capacities[a][b] <= capacities[a][b]
    /\ pc = "done" =>
          \A a, b \in Nodes(m) :
              0 <= optimalFlow[a][b] /\ optimalFlow[a][b] <= capacities[a][b]

\* a run has returned on a network with an antiparallel pair of edges, one of
\* them saturated, and a self-loop
C3_Witness ==
    /\ pc = "done"
    /\ \E a, b \in Nodes(m) :
          /\ a # b
          /\ capacities[a][b] > 0
          /\ capacities[b][a] > 0
          /\ optimalFlow[a][b] = capacities[a][b]
    /\ \E a \in Nodes(m) : capacities[a][a] > 0

\* C4: in the returned flow matrix every node other than the source and the
\* sink receives as much flow as it sends.
C4_FlowConservation ==
    pc = "done" =>
        \A x \in Nodes(m) \ {Source, Sink(m)} :
            ColSum(optimalFlow, x) = RowSum(optimalFlow, x)

\* a run has returned with flow through an inner node, after a later path
\* cancelled flow that an earlier path had pushed
C4_Witness ==
    /\ pc = "done"
    /\ augmentations >= 2
    /\ \E x \in Nodes(m) \ {Source, Sink(m)} : RowSum(optimalFlow, x) > 0
    /\ \E a, b \in Nodes(m) :
          /\ capacities[a][b] > 0
          /\ capacities[b][a] > 0
          /\ residual_capacities[a][b] < 0

\* C5 as stated: when the sink cannot be reached from the source along edges
\* of positive capacity, the result is flow 0, steps 1 and cut [0].
C5_DisconnectedCutIsSource ==
    (pc = "done" /\ Sink(m) \notin ReachableInNetwork) =>
        totalFlow = 0 /\ steps = 1 /\ cut = <<Source>>

\* C5 amended: when the sink cannot be reached from the source along edges
\* of positive capacity, the result is flow 0, steps 1, and the cut lists in
\* ascending order the nodes that can be reached from the source.
C5_DisconnectedCutIsReachable ==
    (pc = "done" /\ Sink(m) \notin ReachableInNetwork) =>
        /\ totalFlow = 0
        /\ steps = 1
        /\ cut = AscendingSeq(ReachableInNetwork)

\* a run has returned on a network whose sink is cut off while the source
\* has an edge to another node, which has an edge back into the source
C5_Witness ==
    /\ pc = "done"
    /\ Sink(m) \notin ReachableInNetwork
    /\ \E a \in Nodes(m) \ {Source} :
          capacities[Source][a] > 0 /\ capacities[a][Source] > 0

\* C6 as stated: steps is the number of searches that found a path and
\* pushed flow, 1 on the single edge and 2 on the diamond.
C6_StepsCountAugmentations ==
    pc = "done" =>
        /\ steps = augmentations
        /\ IsInput(SingleEdge) => steps = 1
        /\ IsInput(Diamond) => steps = 2

\* C6 amended: steps is the number of searches run, the final failed one
\* included: one more than the number of searches that found a path and
\* pushed flow, 2 on the single edge and 3 on the diamond.
C6_StepsCountSearches ==
    pc = "done" =>
        /\ steps = augmentations + 1
        /\ IsInput(SingleEdge) => steps = 2
        /\ IsInput(Diamond) => steps = 3

\* the run on the diamond has returned
C6_Witness == pc = "done" /\ IsInput(Diamond) /\ augmentations = 2

\* C7: the run returns, so that every search and every walk back from the
\* sink it starts has ended, and the number of iterations is at most 1 plus
\* the capacity out of the source.
C7_Termination ==
    /\ <>(pc = "done")
    /\ [](steps <= 1 + RowSum(capacities, Source))

\* the run on the cyclic network has returned with flow 5
C7_Witness == pc = "done" /\ IsInput(Cyclic) /\ totalFlow = 5

\* C8: the total flow never decreases; it changes only when a search has
\* reached the sink, and then it grows by the positive, finite path flow;
\* the search of the iteration that leaves the loop has not reached the sink.
C8_MonotonicConvergence ==
    [][/\ totalFlow' >= totalFlow
       /\ totalFlow' # totalFlow => pc = "check"
       /\ (pc = "check" /\ visited[Sink(m)] # Unvisited) =>
             /\ pathFlow > 0
             /\ pathFlow < Inf
             /\ totalFlow' = totalFlow + pathFlow
       /\ (pc = "check" /\ pc' = "extract") => visited[Sink(m)] = Unvisited
      ]_vars

\* a second augmentation has added a path flow larger than 1
C8_Witness ==
    pc = "walk" /\ augmentations = 2 /\ pathFlow > 1 /\ totalFlow > pathFlow

\* C9: a search returns 0 exactly when the sink cannot be reached in the
\* residual graph; otherwise the predecessor chain of the sink is a simple
\* path with the fewest edges among the residual paths, and the value
\* returned is the least residual capacity on it.
C9_SearchContract ==
    pc = "check" =>
        /\ pathFlow = 0 <=> SinkDistance = -1
        /\ pathFlow # 0 =>
              /\ IsSimplePath(SinkChain)
              /\ Len(SinkChain) - 1 = SinkDistance
              /\ pathFlow = PathBottleneck(SinkChain)

\* C10: the source never has negative flow on its row; between iterations
\* the total flow is the sum of the source's row and of the sink's column of
\* the residual matrix; at return it is the sum of the source's row of the
\* flow matrix and the sink's column minus the sink's row.
C10_FlowValueConsistency ==
    /\ \A b \in Nodes(m) : residual_capacities[Source][b] >= 0
    /\ pc # "walk" =>
          /\ totalFlow = RowSum(residual_capacities, Source)
          /\ totalFlow = ColSum(residual_capacities, Sink(m))
    /\ pc = "done" =>
          /\ totalFlow = RowSum(optimalFlow, Source)
          /\ totalFlow = ColSum(optimalFlow, Sink(m))
                            - RowSum(optimalFlow, Sink(m))

\* a run has returned with flow on a network with an edge into the source
\* and an edge out of the sink
C10_Witness ==
    /\ pc = "done"
    /\ totalFlow > 0
    /\ \E a \in Nodes(m) : capacities[a][Source] > 0
    /\ \E a \in Nodes(m) : capacities[Sink(m)][a] > 0

====
